---- MODULE Spec2Model ----
(***************************************************************************)
(* config_utils: the option resolution engine of                           *)
(* src/src/config_utils/__init__.py.                                       *)
(*                                                                         *)
(* Python objects live in a heap: a Config is a record held at an index of *)
(* `heap`, and every reference to it (a reader list entry, an operand of   *)
(* +) is that index, so aliasing and in-place mutation are modelled as the *)
(* interpreter performs them.  An optional Python value is a tuple of      *)
(* length 0 (None) or 1 (the value).                                       *)
(***************************************************************************)
EXTENDS Integers, Sequences, FiniteSets, TLC

VARIABLES heap, ret, environ, inifile, inisections

vars == <<heap, ret, environ, inifile, inisections>>

(***************************************************************************)
(* Bounds of the model.                                                    *)
(***************************************************************************)
\* Configs plus Options a constructor, option() or + may bring the heap to:
\* under Spec (construction and lookups) and under BuildSpec (construction).
MaxSize == 3

MaxBuild == 4

\* Length of the section list an IniConfigReader is built with (IniSpec).
MaxSections == 2

\* Configs built by the constructor, and by +, under MergeSpec.
MaxLeaves == 3

MaxMerges == 1

(***************************************************************************)
(* Values.                                                                 *)
(***************************************************************************)
None == <<>>

Some(x) == <<x>>

\* Python truthiness of an optional value: None, 0, False and '' are falsy.
Truthy(x) == x # None /\ x[1] # 0

\* Option names; "B" is upper case so that the readers' case conversions act.
Names == {"a", "B"}

\* Section of an Option or a Config: None or a section name.
Sections == {None, Some("s")}

\* processor=None becomes the identity (line 36); "incr" is a caller's function.
ApplyProcessor(p, x) == IF p = "identity" THEN x ELSE x + 10

\* The default=, value= and processor= a caller declares an Option with
\* (0 stands for the falsy values 0, False and ''): nothing but the name; a
\* default, processed; a falsy default; a default and an explicit value,
\* processed; an explicit value alone; a falsy explicit value beside a default.
Declarations ==
    {[default |-> None,    value |-> None,    processor |-> "identity"],
     [default |-> Some(1), value |-> None,    processor |-> "incr"],
     [default |-> Some(0), value |-> None,    processor |-> "identity"],
     [default |-> Some(1), value |-> Some(2), processor |-> "incr"],
     [default |-> None,    value |-> Some(2), processor |-> "identity"],
     [default |-> Some(1), value |-> Some(0), processor |-> "identity"]}

(***************************************************************************)
(* Option                                                                  *)
(***************************************************************************)
Option(name, default, value, processor, section) ==
    [name |-> name, default |-> default, value |-> value,
     processor |-> processor, section |-> section]

\* BaseOption.__eq__ (and __hash__): identity is (name, section) alone.
OptionEq(o, p) == o.section = p.section /\ o.name = p.name

\* Option.value: None unless the explicit value is truthy.
OptionValue(o) ==
    IF Truthy(o.value) THEN Some(ApplyProcessor(o.processor, o.value[1])) ELSE None

\* Option.default: None unless the default is truthy.
OptionDefault(o) ==
    IF Truthy(o.default) THEN Some(ApplyProcessor(o.processor, o.default[1])) ELSE None

(***************************************************************************)
(* Python's set of Options: membership is decided by __eq__/__hash__, and  *)
(* adding an element equal to one already held keeps the one held.         *)
(***************************************************************************)
SetContains(S, o) == \E p \in S : OptionEq(p, o)

\* set.add
SetAdd(S, o) == IF SetContains(S, o) THEN S ELSE S \cup {o}

\* set(list): the elements are added in list order.
RECURSIVE SetOfList(_)
SetOfList(os) ==
    IF os = <<>> THEN {}
    ELSE SetAdd(SetOfList(SubSeq(os, 1, Len(os) - 1)), os[Len(os)])

\* S |= T (set.update in place): elements of T equal to one of S are dropped.
SetUpdate(S, T) == S \cup {o \in T : ~SetContains(S, o)}

(***************************************************************************)
(* References and reader objects.                                          *)
(***************************************************************************)
ConfigRef(i) == [kind |-> "Config", id |-> i]

ReaderRef(j) == [kind |-> "Reader", id |-> j]

\* isinstance(r, BaseConfigReader)
IsReader(r) == r.kind = "Reader"

\* The reader objects the program has constructed: EnvConfigReader() and
\* IniConfigReader(path, sections=inisections).
ReaderObjects ==
    <<[class |-> "EnvConfigReader", prefix |-> ""],
      [class |-> "IniConfigReader", prefix |-> ""]>>

EnvReader == ReaderRef(1)

IniReader == ReaderRef(2)

\* str.upper on the strings the model forms.
Upper(s) ==
    CASE s = "a" -> "A"
      [] s = "B" -> "B"
      [] OTHER -> s

\* ConfigParser.optionxform: str.lower.
Lower(s) ==
    CASE s = "a" -> "a"
      [] s = "B" -> "b"
      [] OTHER -> s

\* EnvConfigReader._env_name
EnvName(prefix, name) == Upper(prefix \o name)

\* EnvConfigReader.resolve: os.environ[...] or UnassignedOptionError(attempts).
EnvResolve(env, rd, name) ==
    LET key == EnvName(ReaderObjects[rd].prefix, name) IN
    IF key \in DOMAIN env
    THEN [ok |-> TRUE, val |-> env[key], attempts |-> <<>>]
    ELSE [ok |-> FALSE, val |-> 0,
          attempts |-> <<[reader |-> rd, sought |-> key]>>]

\* A configparser without the DEFAULT fallthrough: a key counts only in the
\* section that spells it out.
IniHasOwnOnly(file, section, key) ==
    IF section = "DEFAULT" THEN key \in DOMAIN file.defaults
    ELSE /\ section \in DOMAIN file.sections
         /\ key \in DOMAIN file.sections[section]

\* self._config[section][key] of configparser: KeyError when the file has no
\* such section, or when the key is neither in the section nor in DEFAULT.
IniHas(file, section, key) ==
    IF section = "DEFAULT" THEN key \in DOMAIN file.defaults
    ELSE /\ section \in DOMAIN file.sections
         /\ (key \in DOMAIN file.sections[section] \/ key \in DOMAIN file.defaults)

IniGet(file, section, key) ==
    IF section # "DEFAULT" /\ key \in DOMAIN file.sections[section]
    THEN file.sections[section][key]
    ELSE file.defaults[key]

\* IniConfigReader.resolve: the sections are tried in the order given.
RECURSIVE IniScan(_, _, _, _, _, _)
IniScan(file, sections, i, rd, name, attempts) ==
    IF i > Len(sections)
    THEN [ok |-> FALSE, val |-> 0, attempts |-> attempts]
    ELSE IF IniHas(file, sections[i], Lower(name))
         THEN [ok |-> TRUE, val |-> IniGet(file, sections[i], Lower(name)),
               attempts |-> <<>>]
         ELSE IniScan(file, sections, i + 1, rd, name,
                      Append(attempts, [reader |-> rd, sought |-> sections[i]]))

IniResolve(file, sections, rd, name) == IniScan(file, sections, 1, rd, name, <<>>)

\* The external sources a lookup reads.
Sources(env, file, sections) == [env |-> env, file |-> file, sections |-> sections]

\* reader.resolve(option), dispatched on the reader's class.
ReaderResolve(src, rd, name) ==
    IF ReaderObjects[rd].class = "EnvConfigReader"
    THEN EnvResolve(src.env, rd, name)
    ELSE IniResolve(src.file, src.sections, rd, name)

(***************************************************************************)
(* Config                                                                  *)
(***************************************************************************)
\* BaseConfig.__init__ / Config.__init__: a new object at the end of the heap.
ConfigInit(h, options, readers, section) ==
    Append(h, [options |-> SetOfList(options), readers |-> readers,
               section |-> section])

\* Config.option: a given section becomes the Config's section, and the new
\* Option, carrying the Config's section, is added to the set.
ConfigOption(h, c, name, default, value, processor, section) ==
    LET sec == IF section # None THEN section ELSE h[c].section IN
    [h EXCEPT ![c].section = sec,
              ![c].options = SetAdd(@, Option(name, default, value, processor, sec))]

\* A merge that starts from the left operand's options instead of none.
ConfigAddCopy(h, c, other) ==
    Append(h, [options |-> h[c].options, readers |-> <<ConfigRef(c), other>>,
               section |-> None])

\* Config.__add__: Config(options=[], readers=[self, other]).
ConfigAdd(h, c, other) == ConfigInit(h, <<>>, <<ConfigRef(c), other>>, None)

\* BaseConfig.get_flat.  `options` is the Config's own set (line 79), so the
\* |= of line 84 updates h[c].options and the walk leaves a new heap behind.
RECURSIVE GetFlat(_, _)
RECURSIVE GetFlatLoop(_, _, _, _)
GetFlat(h, r) ==
    IF IsReader(r)
    THEN [heap |-> h, options |-> {}, readers |-> <<r>>]
    ELSE GetFlatLoop(h, r.id, 1, <<>>)

\* The loop of lines 81-84, at reader i of Config c.
GetFlatLoop(h, c, i, readers) ==
    IF i > Len(h[c].readers)
    THEN [heap |-> h, options |-> h[c].options, readers |-> readers]
    ELSE LET sub == GetFlat(h, h[c].readers[i])
             h2 == [sub.heap EXCEPT ![c].options = SetUpdate(@, sub.options)]
         IN  GetFlatLoop(h2, c, i + 1, readers \o sub.readers)

\* A flatten that appends the flat reader list to the readers it had.
ConfigFlattenAppend(h, c) ==
    LET f == GetFlat(h, ConfigRef(c))
    IN  [f.heap EXCEPT ![c].options = f.options,
                       ![c].readers = h[c].readers \o f.readers]

\* Config.flatten
ConfigFlatten(h, c) ==
    LET f == GetFlat(h, ConfigRef(c)) IN
    [f.heap EXCEPT ![c].options = f.options, ![c].readers = f.readers]

\* Config.get_option / BaseConfigReader.get_option.  A reader raises
\* UndefinedOptionError; a Config that finds nothing raises
\* UnassignedOptionError (line 168), which line 166 does not catch.
RECURSIVE GetOption(_, _, _, _)
RECURSIVE GetOptionWalk(_, _, _, _, _)
GetOption(h, r, name, section) ==
    IF IsReader(r)
    THEN [status |-> "UndefinedOptionError", option |-> None, owner |-> 0]
    ELSE LET hits == {o \in h[r.id].options : o.name = name /\ o.section = section} IN
         IF hits # {}
         THEN [status |-> "found", option |-> Some(CHOOSE o \in hits : TRUE),
               owner |-> r.id]
         ELSE GetOptionWalk(h, r.id, Len(h[r.id].readers), name, section)

\* for reader in reversed(self.readers), at reader i of Config c.
GetOptionWalk(h, c, i, name, section) ==
    IF i = 0
    THEN [status |-> "UnassignedOptionError", option |-> None, owner |-> 0]
    ELSE LET g == GetOption(h, h[c].readers[i], name, section) IN
         IF g.status = "UndefinedOptionError"
         THEN GetOptionWalk(h, c, i - 1, name, section)
         ELSE g

\* The loop of lines 177-181 over the readers that are BaseConfigReaders.
RECURSIVE ResolveLoop(_, _, _, _, _, _)
ResolveLoop(src, rds, i, name, attempts, consulted) ==
    IF i > Len(rds)
    THEN [ok |-> FALSE, val |-> 0, attempts |-> attempts, consulted |-> consulted]
    ELSE LET r == ReaderResolve(src, rds[i].id, name) IN
         IF r.ok
         THEN [ok |-> TRUE, val |-> r.val, attempts |-> attempts,
               consulted |-> Append(consulted, rds[i].id)]
         ELSE ResolveLoop(src, rds, i + 1, name, attempts \o r.attempts,
                          Append(consulted, rds[i].id))

\* What a lookup ends with: a value, or the exception raised.
Outcome(kind, val, owner, attempts, consulted) ==
    [kind |-> kind, val |-> val, owner |-> owner, attempts |-> attempts,
     consulted |-> consulted]

\* The same, with the Option that get_option bound (None when it raised).
Bound(out, option) ==
    [kind |-> out.kind, val |-> out.val, owner |-> out.owner,
     attempts |-> out.attempts, consulted |-> out.consulted, option |-> option]

\* Config.resolve
ConfigResolve(h, src, c, o) ==
    IF ~SetContains(h[c].options, o)
    THEN Outcome("ConfigError", None, c, <<>>, <<>>)
    ELSE LET r == ResolveLoop(src, SelectSeq(h[c].readers, IsReader), 1, o.name,
                              <<>>, <<>>) IN
         IF r.ok THEN Outcome("ok", Some(r.val), c, r.attempts, r.consulted)
         ELSE IF OptionDefault(o) # None
              THEN Outcome("ok", OptionDefault(o), c, r.attempts, r.consulted)
              ELSE Outcome("UnassignedOptionError", None, c, r.attempts, r.consulted)

\* Config.__getitem__ on a (name, section) tuple.
GetItem(h, src, c, name, section) ==
    LET g == GetOption(h, ConfigRef(c), name, section) IN
    IF g.status # "found" THEN Bound(Outcome(g.status, None, 0, <<>>, <<>>), None)
    ELSE LET o == g.option[1] IN
         IF OptionValue(o) # None
         THEN Bound(Outcome("ok", OptionValue(o), g.owner, <<>>, <<>>), g.option)
         ELSE LET r == ConfigResolve(h, src, g.owner, o) IN
              IF r.kind = "ok" THEN Bound(r, g.option)
              ELSE IF OptionDefault(o) # None
                   THEN Bound(Outcome("ok", OptionDefault(o), g.owner, r.attempts,
                                      r.consulted), g.option)
                   ELSE IF r.kind = "ConfigError"
                        \* attempts is None there: line 208 raises TypeError
                        THEN Bound(Outcome("TypeError", None, g.owner, <<>>, <<>>),
                                   g.option)
                        ELSE Bound(r, g.option)

\* Config.__getitem__ on a name: the Config's own section is used.
GetItemStr(h, src, c, name) == GetItem(h, src, c, name, h[c].section)

(***************************************************************************)
(* The program: constructors, option(), +, flatten() and lookups, called   *)
(* in any order on the Configs built so far.  `ret` names the last call    *)
(* and, for a lookup, holds what it returned or raised.                    *)
(***************************************************************************)
Configs(h) == 1 .. Len(h)

RECURSIVE OptionCount(_, _)
OptionCount(h, i) ==
    IF i = 0 THEN 0 ELSE Cardinality(h[i].options) + OptionCount(h, i - 1)

HeapSize(h) == Len(h) + OptionCount(h, Len(h))

\* Option objects a caller constructs.
OptionInputs ==
    {Option(n, d.default, d.value, d.processor, s) :
        n \in Names, d \in Declarations, s \in Sections}

\* options= of the constructor: no Option, one, or two of the same identity.
OptionLists ==
    {<<>>} \cup {<<o>> : o \in OptionInputs}
           \cup {os \in OptionInputs \X OptionInputs :
                     OptionEq(os[1], os[2]) /\ os[1] # os[2]}

\* readers= of the constructor: one reader, or both in either order.
ReaderLists ==
    {<<EnvReader>>, <<EnvReader, IniReader>>, <<IniReader, EnvReader>>}

\* The environment and the parsed file of the run (keys are stored lower case).
TheEnviron == ("A" :> 5)

TheIniFile ==
    [defaults |-> ("b" :> 6),
     sections |-> ("S1" :> ("a" :> 7) @@ "S2" :> ("a" :> 8 @@ "b" :> 9))]

TheIniSections == <<"S1", "S2">>

Src == Sources(environ, inifile, inisections)

Init ==
    /\ heap = <<>>
    /\ ret = [op |-> "start"]
    /\ environ = TheEnviron
    /\ inifile = TheIniFile
    /\ inisections = TheIniSections

\* c = Config(options, readers)
NewConfig(max) ==
    /\ HeapSize(heap) < max
    /\ \E os \in OptionLists, rs \in ReaderLists :
         LET h2 == ConfigInit(heap, os, rs, None) IN
         /\ HeapSize(h2) <= max
         /\ heap' = h2
         /\ ret' = [op |-> "Config"]
    /\ UNCHANGED <<environ, inifile, inisections>>

\* c.option(name, default, value, processor, section)
OptionCall(max) ==
    /\ \E c \in Configs(heap), n \in Names, d \in Declarations, s \in Sections :
         LET h2 == ConfigOption(heap, c, n, d.default, d.value, d.processor, s) IN
         /\ HeapSize(h2) <= max
         /\ heap' = h2
         /\ ret' = [op |-> "option"]
    /\ UNCHANGED <<environ, inifile, inisections>>

\* c + other
AddCall(max) ==
    /\ HeapSize(heap) < max
    /\ \E c \in Configs(heap), other \in Configs(heap) :
         /\ heap' = ConfigAdd(heap, c, ConfigRef(other))
         /\ ret' = [op |-> "add"]
    /\ UNCHANGED <<environ, inifile, inisections>>

\* c.flatten()
FlattenCall ==
    /\ \E c \in Configs(heap) :
         /\ heap' = ConfigFlatten(heap, c)
         /\ ret' = [op |-> "flatten"]
    /\ UNCHANGED <<environ, inifile, inisections>>

\* c[(name, section)]
GetItemCall ==
    /\ \E c \in Configs(heap), n \in Names, s \in Sections :
         ret' = [op |-> "getitem", cfg |-> c, name |-> n, section |-> s,
                 out |-> GetItem(heap, Src, c, n, s)]
    /\ UNCHANGED <<heap, environ, inifile, inisections>>

\* c[name]
GetItemStrCall ==
    /\ \E c \in Configs(heap), n \in Names :
         ret' = [op |-> "getitem", cfg |-> c, name |-> n, section |-> heap[c].section,
                 out |-> GetItemStr(heap, Src, c, n)]
    /\ UNCHANGED <<heap, environ, inifile, inisections>>

Build(max) == NewConfig(max) \/ OptionCall(max) \/ AddCall(max) \/ FlattenCall

Next == Build(MaxSize) \/ GetItemCall \/ GetItemStrCall

\* The whole interface.
Spec == Init /\ [][Next]_vars

\* Construction alone (a lookup changes nothing but `ret`), of larger heaps.
BuildSpec == Init /\ [][Build(MaxBuild)]_vars

\* Merges of up to MaxLeaves constructed Configs, each declaring at most the
\* identity ("B", None): B is not in the environment and is the DEFAULT key b
\* of the ini file, so the reader list decides whether a reader succeeds.
LeafDeclarations ==
    {d \in Declarations :
        /\ d.default # Some(0)
        /\ d.value = None \/ (Truthy(d.value) /\ d.default # None)}

LeafOptionLists ==
    {<<>>} \cup {<<Option("B", d.default, d.value, d.processor, None)>> :
                    d \in LeafDeclarations}

LeafReaderLists == {<<EnvReader>>, <<IniReader, EnvReader>>}

\* Config(options=os, readers=rs)
NewLeaf ==
    /\ Cardinality({c \in Configs(heap) : \A i \in DOMAIN heap[c].readers :
                                             IsReader(heap[c].readers[i])}) < MaxLeaves
    /\ Len(heap) < MaxLeaves + MaxMerges
    /\ \E os \in LeafOptionLists, rs \in LeafReaderLists :
         heap' = ConfigInit(heap, os, rs, None)
    /\ ret' = [op |-> "Config"]
    /\ UNCHANGED <<environ, inifile, inisections>>

\* heap[c] + heap[other]
MergeCall ==
    /\ Len(heap) < MaxLeaves + MaxMerges
    /\ Cardinality({c \in Configs(heap) : \E i \in DOMAIN heap[c].readers :
                                             ~IsReader(heap[c].readers[i])}) < MaxMerges
    /\ \E c, other \in Configs(heap) :
         heap' = ConfigAdd(heap, c, ConfigRef(other))
    /\ ret' = [op |-> "add"]
    /\ UNCHANGED <<environ, inifile, inisections>>

MergeNext == NewLeaf \/ MergeCall

MergeSpec == Init /\ [][MergeNext]_vars

(***************************************************************************)
(* IniConfigReader.resolve on its own: any parsed file over two keys and   *)
(* two values, any list of sections the reader may be built with.          *)
(***************************************************************************)
IniKeys == {"a", "b"}

IniValues == {6, 7}

SectionNames == {"S1", "S2", "DEFAULT"}

\* The key/value pairs of one section: a function on a subset of the keys.
IniSectionBodies == UNION {[ks -> IniValues] : ks \in SUBSET IniKeys}

IniFiles ==
    UNION {[defaults : IniSectionBodies, sections : [ss -> IniSectionBodies]] :
              ss \in SUBSET {"S1", "S2"}}

RECURSIVE SectionLists(_)
SectionLists(n) ==
    IF n = 0 THEN {<<>>}
    ELSE LET shorter == SectionLists(n - 1) IN
         shorter \cup {Append(l, x) : l \in {m \in shorter : Len(m) = n - 1},
                                      x \in SectionNames}

IniInit ==
    /\ heap = <<>>
    /\ ret = [op |-> "start"]
    /\ environ = TheEnviron
    /\ inifile \in IniFiles
    /\ inisections \in SectionLists(MaxSections) \ {<<>>}

\* IniConfigReader(...).resolve(Option(name))
IniResolveCall ==
    /\ \E n \in Names :
         ret' = [op |-> "resolve", name |-> n,
                 out |-> IniResolve(inifile, inisections, 2, n)]
    /\ UNCHANGED <<heap, environ, inifile, inisections>>

IniSpec == IniInit /\ [][IniResolveCall]_vars

(***************************************************************************)
(* Vocabulary of the properties.                                           *)
(***************************************************************************)
Identities == Names \X Sections

\* Config c itself holds an Option of identity (n, s).
Declares(h, c, n, s) == \E o \in h[c].options : o.name = n /\ o.section = s

DeclaredOption(h, c, n, s) == CHOOSE o \in h[c].options : o.name = n /\ o.section = s

\* The Configs of c's reader chain: c and, transitively, its Config readers.
RECURSIVE Chain(_, _)
Chain(h, c) ==
    {c} \cup UNION {Chain(h, h[c].readers[i].id) :
                       i \in {j \in DOMAIN h[c].readers : ~IsReader(h[c].readers[j])}}

DeclaredInChain(h, c, n, s) == \E d \in Chain(h, c) : Declares(h, d, n, s)

\* processor(raw) of an Option, for a raw value that was supplied.
Processed(o, raw) == Some(ApplyProcessor(o.processor, raw[1]))

\* Two lookups end alike: the same value, or the same kind of error.
SameOutcome(x, y) == x.kind = y.kind /\ x.val = y.val

\* The direct BaseConfigReaders of Config c, in reader-list order.
OwnReaders(h, c) == SelectSeq(h[c].readers, IsReader)

\* Positions in OwnReaders(h, c) of the readers that hold a value for name n.
Succeeding(h, c, n) ==
    {i \in DOMAIN OwnReaders(h, c) : ReaderResolve(Src, OwnReaders(h, c)[i].id, n).ok}

Least(S) == CHOOSE i \in S : \A j \in S : i <= j

\* The last call was a lookup that bound Option o.
LookedUp(o) == ret.op = "getitem" /\ ret.out.option = Some(o)

(***************************************************************************)
(* C1.  Explicit value wins: a lookup that binds an Option given an        *)
(* explicit value (any supplied value, 0 included) returns                 *)
(* processor(explicit value) and consults no reader.                       *)
(***************************************************************************)
C1_ExplicitValueWins ==
    \A o \in OptionInputs :
        LookedUp(o) /\ o.value # None =>
            /\ ret.out.kind = "ok"
            /\ ret.out.val = Processed(o, o.value)
            /\ ret.out.consulted = <<>>

(***************************************************************************)
(* C2.  Reader order then default: a lookup that binds an Option without   *)
(* explicit value returns the value of the first reader of the owning      *)
(* Config that succeeds, consulting none after it; when none succeeds and  *)
(* a default was supplied (any value, 0 included) it returns               *)
(* processor(default).                                                     *)
(***************************************************************************)
C2_ReaderOrderThenDefault ==
    \A o \in OptionInputs :
        LookedUp(o) /\ o.value = None =>
            LET own == ret.out.owner
                ok == Succeeding(heap, own, o.name)
            IN  IF ok # {}
                THEN /\ ret.out.kind = "ok"
                     /\ ret.out.val =
                          Some(ReaderResolve(Src, OwnReaders(heap, own)[Least(ok)].id,
                                             o.name).val)
                     /\ ret.out.consulted =
                          [i \in 1 .. Least(ok) |-> OwnReaders(heap, own)[i].id]
                ELSE o.default # None =>
                         /\ ret.out.kind = "ok"
                         /\ ret.out.val = Processed(o, o.default)

(***************************************************************************)
(* C4.  Undefined versus unassigned: a lookup of an identity that no       *)
(* Config of the reader chain declares raises UndefinedOptionError; a      *)
(* lookup that binds an Option with no explicit value, no succeeding       *)
(* reader and no default raises UnassignedOptionError.                     *)
(***************************************************************************)
C4_UndefinedVersusUnassigned ==
    ret.op = "getitem" =>
        /\ ~DeclaredInChain(heap, ret.cfg, ret.name, ret.section) =>
               ret.out.kind = "UndefinedOptionError"
        /\ \A o \in OptionInputs :
               /\ ret.out.option = Some(o)
               /\ o.value = None
               /\ o.default = None
               /\ Succeeding(heap, ret.out.owner, o.name) = {}
               => ret.out.kind = "UnassignedOptionError"

(***************************************************************************)
(* C9.  Duplicate identity replaces: a Config never holds two Options of   *)
(* one identity, and after option() inserts a definition the Config holds  *)
(* that definition, also when it already held an Option of the same        *)
(* identity.                                                               *)
(***************************************************************************)
C9_DuplicateIdentityReplaces ==
    \A c \in Configs(heap) :
        /\ \A o, p \in heap[c].options : OptionEq(o, p) => o = p
        /\ \A n \in Names, d \in Declarations, s \in Sections :
               LET h2 == ConfigOption(heap, c, n, d.default, d.value, d.processor, s)
               IN  Option(n, d.default, d.value, d.processor, h2[c].section)
                       \in h2[c].options

\* Config m is an unflattened merge a + b, as __add__ builds it.
IsMerge(h, m, a, b) ==
    /\ h[m].options = {}
    /\ h[m].readers = <<ConfigRef(a), ConfigRef(b)>>

(***************************************************************************)
(* C3.  Override on merge: when A and B both declare an identity with      *)
(* explicit (non-falsy) values, a lookup on A + B returns B's processed    *)
(* value, and still does after A + B is flattened.                         *)
(***************************************************************************)
C3_OverrideOnMerge ==
    \A a, b \in Configs(heap) : \A id \in Identities :
        /\ Declares(heap, a, id[1], id[2])
        /\ Declares(heap, b, id[1], id[2])
        /\ Truthy(DeclaredOption(heap, a, id[1], id[2]).value)
        /\ Truthy(DeclaredOption(heap, b, id[1], id[2]).value)
        => LET ob == DeclaredOption(heap, b, id[1], id[2])
               h1 == ConfigAdd(heap, a, ConfigRef(b))
               m == Len(h1)
               before == GetItem(h1, Src, m, id[1], id[2])
               after == GetItem(ConfigFlatten(h1, m), Src, m, id[1], id[2])
           IN  /\ before.kind = "ok" /\ before.val = Processed(ob, ob.value)
               /\ after.kind = "ok" /\ after.val = Processed(ob, ob.value)

(***************************************************************************)
(* C8.  Owner lookup over the whole chain: on an unflattened merge A + B,  *)
(* get_option finds an identity in B when B's chain declares it, else in   *)
(* A when A's chain declares it (the lookup then yields what it yields on  *)
(* A), and fails only when no Config of the chain declares it.             *)
(***************************************************************************)
C8_OwnerLookupWholeChain ==
    \A m, a, b \in Configs(heap) : \A id \in Identities :
        IsMerge(heap, m, a, b) =>
            LET g == GetOption(heap, ConfigRef(m), id[1], id[2])
            IN  IF DeclaredInChain(heap, b, id[1], id[2])
                THEN g.status = "found" /\ g.owner \in Chain(heap, b)
                ELSE IF DeclaredInChain(heap, a, id[1], id[2])
                THEN /\ g.status = "found" /\ g.owner \in Chain(heap, a)
                     /\ SameOutcome(GetItem(heap, Src, m, id[1], id[2]),
                                    GetItem(heap, Src, a, id[1], id[2]))
                ELSE g.status # "found"

(***************************************************************************)
(* C10.  Merged configs are independent: A + B leaves every existing       *)
(* Config as it was, and flatten() on one Config leaves every other        *)
(* Config (its operands and intermediate merges included) with the same    *)
(* option set, reader list and lookup results.                             *)
(***************************************************************************)
C10_MergedConfigsIndependent ==
    /\ \A a, b \in Configs(heap) :
           SubSeq(ConfigAdd(heap, a, ConfigRef(b)), 1, Len(heap)) = heap
    /\ \A t \in Configs(heap) : \A d \in Configs(heap) \ {t} :
           LET h2 == ConfigFlatten(heap, t)
           IN  /\ h2[d].options = heap[d].options
               /\ h2[d].readers = heap[d].readers
               /\ \A id \in Identities :
                      GetItem(h2, Src, d, id[1], id[2]) =
                          GetItem(heap, Src, d, id[1], id[2])

\* The keys section S of the ini file spells out itself.
OwnKeys(S) == IF S \in DOMAIN inifile.sections THEN DOMAIN inifile.sections[S] ELSE {}

\* Key K is visible in S: S is a section of the file (or DEFAULT itself) and
\* K is one of its own keys or a key of the implicit DEFAULT section.
Visible(S, K) ==
    /\ S = "DEFAULT" \/ S \in DOMAIN inifile.sections
    /\ K \in OwnKeys(S) \/ K \in DOMAIN inifile.defaults

ValueIn(S, K) ==
    IF K \in OwnKeys(S) THEN inifile.sections[S][K] ELSE inifile.defaults[K]

(***************************************************************************)
(* C7.  Ini section scan with defaults fallback: the reader resolves a key *)
(* to its value in the first listed section in which the key is visible,   *)
(* DEFAULT keys being visible in every section of the file, and fails when *)
(* it is visible in none.  For sections <<S1, S2>> of the file: when S1    *)
(* lacks the key and DEFAULT has it, the DEFAULT value is returned         *)
(* whatever S2 holds; S2's own value is returned only when neither S1 nor  *)
(* DEFAULT has the key.                                                    *)
(***************************************************************************)
C7_IniSectionScan ==
    ret.op = "resolve" =>
        LET K == Lower(ret.name)
            vis == {i \in DOMAIN inisections : Visible(inisections[i], K)}
        IN  /\ vis = {} => ~ret.out.ok
            /\ vis # {} =>
                   /\ ret.out.ok
                   /\ ret.out.val = ValueIn(inisections[Least(vis)], K)
            /\ /\ Len(inisections) = 2
               /\ inisections[1] \in DOMAIN inifile.sections
               /\ inisections[2] \in DOMAIN inifile.sections
               => /\ K \notin OwnKeys(inisections[1]) /\ K \in DOMAIN inifile.defaults
                     => ret.out.ok /\ ret.out.val = inifile.defaults[K]
                  /\ K \in OwnKeys(inisections[1]) \/ K \in DOMAIN inifile.defaults
                     => ret.out.ok /\ ret.out.val = ValueIn(inisections[1], K)
                  /\ /\ K \notin OwnKeys(inisections[1])
                     /\ K \notin DOMAIN inifile.defaults
                     /\ K \in OwnKeys(inisections[2])
                     => ret.out.ok
                        /\ ret.out.val = inifile.sections[inisections[2]][K]

\* S1 lacks the key, DEFAULT has it, S2 defines it differently, and the
\* resolve returned the DEFAULT value.
C7_Witness ==
    /\ ret.op = "resolve"
    /\ inisections = <<"S1", "S2">>
    /\ {"S1", "S2"} \subseteq DOMAIN inifile.sections
    /\ Lower(ret.name) \notin DOMAIN inifile.sections["S1"]
    /\ Lower(ret.name) \in DOMAIN inifile.defaults
    /\ Lower(ret.name) \in DOMAIN inifile.sections["S2"]
    /\ inifile.sections["S2"][Lower(ret.name)] # inifile.defaults[Lower(ret.name)]
    /\ ret.out.ok
    /\ ret.out.val = inifile.defaults[Lower(ret.name)]

\* The heap after (a + b) + c and after a + (b + c); either result is the
\* last Config of its heap.
LeftMerge(h, a, b, c) ==
    LET h1 == ConfigAdd(h, a, ConfigRef(b)) IN ConfigAdd(h1, Len(h1), ConfigRef(c))

RightMerge(h, a, b, c) ==
    LET h1 == ConfigAdd(h, b, ConfigRef(c)) IN ConfigAdd(h1, a, ConfigRef(Len(h1)))

(***************************************************************************)
(* C5.  Associativity of lookup outcome: for any three Configs a, b, c     *)
(* and any identity, the lookup on (a + b) + c and the lookup on           *)
(* a + (b + c) end alike: the same value, or the same kind of error.       *)
(***************************************************************************)
C5_AssociativeLookup ==
    \A a, b, c \in Configs(heap) : \A id \in Identities :
        LET hl == LeftMerge(heap, a, b, c)
            hr == RightMerge(heap, a, b, c)
        IN  SameOutcome(GetItem(hl, Src, Len(hl), id[1], id[2]),
                        GetItem(hr, Src, Len(hr), id[1], id[2]))

\* A merge has been built, and three distinct Configs, the first and the last
\* declaring one identity differently, yield a value for it in both groupings.
C5_Witness ==
    /\ ret.op = "add"
    /\ \E a, b, c \in Configs(heap) : \E id \in Identities :
           /\ a # b /\ b # c /\ a # c
           /\ Declares(heap, a, id[1], id[2])
           /\ Declares(heap, c, id[1], id[2])
           /\ DeclaredOption(heap, a, id[1], id[2]) # DeclaredOption(heap, c, id[1], id[2])
           /\ LET hl == LeftMerge(heap, a, b, c)
                  hr == RightMerge(heap, a, b, c)
              IN  /\ GetItem(hl, Src, Len(hl), id[1], id[2]).kind = "ok"
                  /\ GetItem(hr, Src, Len(hr), id[1], id[2]).kind = "ok"

(***************************************************************************)
(* C6.  Flatten is idempotent: flattening a Config a second time leaves    *)
(* it with the same option set, the same reader list and the same lookup   *)
(* result for every identity as flattening it once.                        *)
(***************************************************************************)
C6_FlattenIdempotent ==
    \A c \in Configs(heap) :
        LET h1 == ConfigFlatten(heap, c)
            h2 == ConfigFlatten(h1, c)
        IN  /\ h2[c].options = h1[c].options
            /\ h2[c].readers = h1[c].readers
            /\ \A id \in Identities :
                   GetItem(h2, Src, c, id[1], id[2]) =
                       GetItem(h1, Src, c, id[1], id[2])

\* flatten() has just run, and a Config holds options together with the
\* concatenated reader lists of a merge: flattening it again changes nothing.
C6_Witness ==
    /\ ret.op = "flatten"
    /\ \E c \in Configs(heap) :
           /\ heap[c].options # {}
           /\ Len(heap[c].readers) >= 3
           /\ \A i \in DOMAIN heap[c].readers : IsReader(heap[c].readers[i])
           /\ ConfigFlatten(heap, c) = heap

====
